---- MODULE Spec2Model ----
(***************************************************************************)
(* cdktf-diff: the output classifier of RunDiff.runDiff, the job resolver  *)
(* RunDiff.getJobId (getJobInformation), the orchestration RunDiff.run and *)
(* the entry point run() of index.ts.                                      *)
(*                                                                         *)
(* A text is a sequence of characters, each character a one-character      *)
(* string; ESC stands for the character U+001B and LF for the line feed.   *)
(* A fixed message of the program (a literal of the source, an exception   *)
(* message) is a text of one or more multi-character tokens, so that it    *)
(* can be compared with a text extracted from the captured output.         *)
(*                                                                         *)
(* Two builds of runDiff are modelled, selected by `variant`:              *)
(*   "runDiff"     src/src/runDiff.ts: exec without ignoreReturnCode, the  *)
(*                 classification inlined in the try block;                *)
(*   "parseOutput" src/unnamed/part_005: exec with ignoreReturnCode: true, *)
(*                 the classification in parseOutput(output, exitCode).    *)
(*                                                                         *)
(* exec.exec is the one of @actions/exec: the listeners are called with    *)
(* the buffers the process writes, in the order they arrive; the promise   *)
(* resolves with the exit code, and rejects when the process cannot be run *)
(* or, unless ignoreReturnCode is set, when it exits with a non-zero code. *)
(***************************************************************************)
EXTENDS Integers, Sequences, FiniteSets, TLC

VARIABLES
    variant,      \* which build of RunDiff is running
    pc,           \* position of runDiff: "start", "exec" (awaiting exec.exec), "done"
    output,       \* the local `output` the stdout/stderr listeners append to
    chunks,       \* number of listener callbacks delivered so far
    execOutcome,  \* how exec.exec settled: "pending", "resolved", "rejected"
    exitCode,     \* the exit code of the bash process (-1: none, spawn failure)
    tmpFile,      \* content of $TMPDIR/cdktf-diff.txt
    cleanOutput,  \* the local `cleanOutput`
    result,       \* the value runDiff returned: [result_code, summary]
    source,       \* the jobs of the workflow run, as the API delivers them page by page
    page,         \* the local `page` of getJobId
    requested,    \* the page numbers listJobsForWorkflowRun was called with, in order
    paginateCalls,\* number of calls of octokit.paginate
    apiError,     \* the message of the error a request to the API failed with
    jobPc,        \* position of the resolver: "idle", "awaiting", "returned", "threw"
    jobResult,    \* the value the resolver returned: [job_id, html_url]
    jobError,     \* the message of the error the resolver threw
    runPc,        \* position of run: "idle", "getJobId", "runDiff", "done", "rejected"
    outputs,      \* the action outputs set with core.setOutput, by key
    outputFile,   \* content of <workingDirectory>/<outputFilename>
    failed,       \* the messages core.setFailed was called with, in order
    runError,     \* the message of the error run rejected with
    inputs,       \* this.inputs: [stubOutputFile, skipSynth]
    command,      \* what exec.exec was called with: [commandLine, args, cwd]
    delivered,    \* the buffers the process wrote, each with its stream, where kept on record
    wrapPc,       \* position of the entry point run(): "idle", "run", "done"
    thrown,       \* the value the catch block of the entry point caught
    events        \* the calls made so far, in order: <<name, detail>>

diffVars == <<pc, output, chunks, execOutcome, exitCode, tmpFile, cleanOutput, result,
              inputs, command, delivered>>

jobVars == <<source, page, requested, paginateCalls, apiError, jobPc, jobResult, jobError>>

runVars == <<runPc, outputs, outputFile, failed, runError, wrapPc, thrown>>

vars == <<variant, diffVars, jobVars, runVars, events>>

----------------------------------------------------------------------------
(* Bounds *)

MaxChunks == 3

MaxChars == 6

MaxExitCode == 1

MaxFullPages == 2

----------------------------------------------------------------------------
(* Characters and literals of the source *)

ESC == "ESC"

LF == "\n"

CR == "\r"

Digits == {"0", "1", "2", "3", "4", "5", "6", "7", "8", "9"}

FinalBytes == {"m", "G", "K"}

\* what `.` of a JavaScript regular expression does not match
LineTerminators == {LF, CR}

PlanningFailedPhrase ==
    <<"P","l","a","n","n","i","n","g"," ","f","a","i","l","e","d","."," ","T",
      "e","r","r","a","f","o","r","m"," ","e","n","c","o","u","n","t","e",
      "r","e","d"," ","a","n"," ","e","r","r","o","r">>

NoChangesPhrase ==
    <<"N","o"," ","c","h","a","n","g","e","s","."," ","Y","o","u","r"," ","i",
      "n","f","r","a","s","t","r","u","c","t","u","r","e"," ","m","a","t",
      "c","h","e","s"," ","t","h","e"," ","c","o","n","f","i","g","u","r",
      "a","t","i","o","n",".">>

ErrorPrefix == <<"E","r","r","o","r",":"," ">>

PlanPrefix == <<"P","l","a","n",":">>

UnknownError == <<"Unknown error occurred">>

CouldNotDetermine == <<"Could not determine if diff ran successfully">>

\* `Plan failed with exit code ${exitCode}. See run for details.`
PlanFailedMessage(e) == <<"Plan failed with exit code ", ToString(e), ". See run for details.">>

\* the Error exec.exec rejects with when the process exits non-zero
ExitCodeMessage(e) == <<"The process '/usr/bin/bash' failed with exit code ", ToString(e)>>

\* the Error exec.exec rejects with when the process could not be run
SpawnMessage == <<"There was an error when attempting to execute the process 'bash'">>

----------------------------------------------------------------------------
(* String primitives *)

\* p occurs in t at index i
OccursAt(t, p, i) ==
    /\ i >= 1
    /\ i + Len(p) - 1 <= Len(t)
    /\ \A j \in 1..Len(p) : t[i + j - 1] = p[j]

\* String.prototype.includes
Includes(t, p) == \E i \in 1..(Len(t) - Len(p) + 1) : OccursAt(t, p, i)

\* the least element of a non-empty set of integers
Min(S) == CHOOSE i \in S : \A j \in S : i <= j

\* String.prototype.indexOf, from 1, with 0 for "not found"
IndexOf(t, p) ==
    LET occ == {i \in 1..(Len(t) - Len(p) + 1) : OccursAt(t, p, i)}
    IN  IF occ = {} THEN 0 ELSE Min(occ)

\* index of the first line terminator of t at or after i, Len(t) + 1 if none
LineEnd(t, i) ==
    Min({j \in i..Len(t) : t[j] \in LineTerminators} \cup {Len(t) + 1})

\* indices at which a line of t begins with the prefix
LineStarts(t, prefix) ==
    {i \in 1..(Len(t) - Len(prefix) + 1) :
        OccursAt(t, prefix, i) /\ (i = 1 \/ t[i - 1] \in LineTerminators)}

\* mutant of MatchToEndOfLine: the expression anchored at the start of a line
MatchAtLineStart(t, prefix) ==
    LET ls == LineStarts(t, prefix)
    IN  IF ls = {} THEN <<>> ELSE SubSeq(t, Min(ls), LineEnd(t, Min(ls)) - 1)

\* mutant of MatchToEndOfLine: the expression without its trailing `.*`
MatchPrefixOnly(t, prefix) == IF IndexOf(t, prefix) = 0 THEN <<>> ELSE prefix

\* t.match(/<prefix>.*/)?.[0], with <<>> for no match: the first occurrence
\* of the prefix and everything after it up to the end of that line
MatchToEndOfLine(t, prefix) ==
    LET i == IndexOf(t, prefix)
    IN  IF i = 0 THEN <<>> ELSE SubSeq(t, i, LineEnd(t, i + Len(prefix)) - 1)

----------------------------------------------------------------------------
(* /\x1B\[([0-9]{1,3}(;[0-9]{1,2})?)?[mGK]/g *)

\* the characters of t from i on are a digits, then (b > 0) ';' and b digits
ParamsAt(t, i, a, b) ==
    /\ \A k \in 0..(a - 1) : i + k <= Len(t) /\ t[i + k] \in Digits
    /\ b > 0 => /\ a > 0
                /\ i + a <= Len(t) /\ t[i + a] = ";"
                /\ \A k \in 1..b : i + a + k <= Len(t) /\ t[i + a + k] \in Digits

\* length of a (a, b)-parameter string
ParamsLen(a, b) == a + (IF b > 0 THEN b + 1 ELSE 0)

\* the (a, b) for which the expression matches at index i
CsiMatches(t, i) ==
    IF i + 1 <= Len(t) /\ t[i] = ESC /\ t[i + 1] = "["
    THEN {ab \in (0..3) \X (0..2) :
            /\ ParamsAt(t, i + 2, ab[1], ab[2])
            /\ i + 2 + ParamsLen(ab[1], ab[2]) <= Len(t)
            /\ t[i + 2 + ParamsLen(ab[1], ab[2])] \in FinalBytes}
    ELSE {}

\* length of the match at index i, 0 if the expression does not match there
CsiLen(t, i) ==
    LET ms == CsiMatches(t, i)
    IN  IF ms = {} THEN 0
        ELSE LET ab == CHOOSE m \in ms : TRUE IN 3 + ParamsLen(ab[1], ab[2])

\* the longest match of the expression
MaxCsiLen == 2 + 3 + 1 + 2 + 1

\* index i lies inside a match. A match holds ESC at its first index only, so
\* no two matches overlap and the left-to-right pass of a global replace
\* removes every one of them.
InMatch(t, i) == \E s \in (i - MaxCsiLen + 1)..i : s >= 1 /\ CsiLen(t, s) > i - s

\* mutant of StripAnsiCodes: literal '[' characters are deleted as well
StripAnsiAndBrackets(t) ==
    LET kept == SelectSeq([i \in 1..Len(t) |-> i],
                          LAMBDA i : ~InMatch(t, i) /\ t[i] # "[")
    IN  [k \in 1..Len(kept) |-> t[kept[k]]]

\* output.replace(/\x1B\[([0-9]{1,3}(;[0-9]{1,2})?)?[mGK]/g, "")
StripAnsiCodes(t) ==
    LET kept == SelectSeq([i \in 1..Len(t) |-> i], LAMBDA i : ~InMatch(t, i))
    IN  [k \in 1..Len(kept) |-> t[kept[k]]]

----------------------------------------------------------------------------
(* Classification *)

Return(code, summary) == [kind |-> "return", result_code |-> code, summary |-> summary]

Throw(message) == [kind |-> "throw", message |-> message]

\* mutant of ClassifyClean: a failed planning without an error line is not
\* reported as such
ClassifyErrorFallsThrough(clean) ==
    IF Includes(clean, PlanningFailedPhrase) /\ MatchToEndOfLine(clean, ErrorPrefix) # <<>>
    THEN Return("1", MatchToEndOfLine(clean, ErrorPrefix))
    ELSE IF Includes(clean, NoChangesPhrase)
    THEN Return("0", NoChangesPhrase)
    ELSE LET planMatch == MatchToEndOfLine(clean, PlanPrefix)
         IN  IF planMatch # <<>> THEN Return("2", planMatch)
             ELSE Throw(CouldNotDetermine)

\* mutant of ClassifyClean: the no-changes check moved before the error check
ClassifyNoChangesFirst(clean) ==
    IF Includes(clean, NoChangesPhrase)
    THEN Return("0", NoChangesPhrase)
    ELSE IF Includes(clean, PlanningFailedPhrase)
    THEN LET m == MatchToEndOfLine(clean, ErrorPrefix)
         IN  Return("1", IF m # <<>> THEN m ELSE UnknownError)
    ELSE LET planMatch == MatchToEndOfLine(clean, PlanPrefix)
         IN  IF planMatch # <<>> THEN Return("2", planMatch)
             ELSE Throw(CouldNotDetermine)

\* mutant of ClassifyClean: the Plan check moved before the no-changes check
ClassifyPlanFirst(clean) ==
    IF Includes(clean, PlanningFailedPhrase)
    THEN LET m == MatchToEndOfLine(clean, ErrorPrefix)
         IN  Return("1", IF m # <<>> THEN m ELSE UnknownError)
    ELSE LET planMatch == MatchToEndOfLine(clean, PlanPrefix)
         IN  IF planMatch # <<>> THEN Return("2", planMatch)
             ELSE IF Includes(clean, NoChangesPhrase)
             THEN Return("0", NoChangesPhrase)
             ELSE Throw(CouldNotDetermine)

\* src/src/runDiff.ts: the checks of the try block after exec has resolved
ClassifyClean(clean) ==
    IF Includes(clean, PlanningFailedPhrase)
    THEN LET m == MatchToEndOfLine(clean, ErrorPrefix)
         IN  Return("1", IF m # <<>> THEN m ELSE UnknownError)
    ELSE IF Includes(clean, NoChangesPhrase)
    THEN Return("0", NoChangesPhrase)
    ELSE LET planMatch == MatchToEndOfLine(clean, PlanPrefix)
         IN  IF planMatch # <<>> THEN Return("2", planMatch)
             ELSE Throw(CouldNotDetermine)

\* mutant of ParseOutput: the exit code is not looked at
ParseOutputIgnoringExit(out, code) ==
    LET clean == StripAnsiCodes(out)
    IN  IF Includes(clean, NoChangesPhrase) THEN Return("0", NoChangesPhrase)
        ELSE LET planMatch == MatchToEndOfLine(clean, PlanPrefix)
             IN  IF planMatch # <<>> THEN Return("2", planMatch)
                 ELSE Throw(CouldNotDetermine)

\* src/unnamed/part_005: parseOutput(output, exitCode)
ParseOutput(out, code) ==
    LET clean == StripAnsiCodes(out)
    IN  IF code # 0 THEN Return("1", PlanFailedMessage(code))
        ELSE IF Includes(clean, NoChangesPhrase) THEN Return("0", NoChangesPhrase)
        ELSE IF Includes(clean, NoChangesPhrase) THEN Return("0", NoChangesPhrase)
        ELSE LET planMatch == MatchToEndOfLine(clean, PlanPrefix)
             IN  IF planMatch # <<>> THEN Return("2", planMatch)
                 ELSE Throw(CouldNotDetermine)

\* mutant of Catch: the error is thrown on to the caller
CatchRethrows(message) == [result_code |-> "thrown", summary |-> message]

\* mutant of Catch: the error is swallowed and reported as no changes
CatchAsNoChanges(message) == [result_code |-> "0", summary |-> message]

\* mutant of Catch: the message of the error is replaced by a fixed one
CatchUnknown(message) == [result_code |-> "1", summary |-> UnknownError]

\* catch (error) { return { result_code: "1", summary: error.message } }
Catch(message) == [result_code |-> "1", summary |-> message]

\* what the try/catch of runDiff returns for an outcome of the try block
TryCatch(r) ==
    IF r.kind = "throw" THEN Catch(r.message)
    ELSE [result_code |-> r.result_code, summary |-> r.summary]

\* the ignoreReturnCode option each build passes to exec.exec
IgnoreReturnCode(v) == v = "parseOutput"

----------------------------------------------------------------------------
(* Inputs *)

ErrorLineChunk == ErrorPrefix \o <<"b","a","d">>

MidErrorChunk == <<"|"," ">> \o ErrorPrefix \o <<"w","o","r","s","e",LF>>

PlanLineChunk == PlanPrefix \o <<" ","1"," ","t","o"," ","a","d","d",".">>

ShortFailChunk == SubSeq(PlanningFailedPhrase, 1, 16)

SgrChunk == <<ESC,"[","3","2","m">>

\* the buffers the diff process may write, phrase by phrase
PhraseChunks ==
    {PlanningFailedPhrase, ShortFailChunk, ErrorLineChunk, MidErrorChunk,
     NoChangesPhrase, PlanLineChunk, SgrChunk, <<LF>>}

\* the buffers of a process that writes character by character
CharChunks == {<<ESC>>, <<"[">>, <<"1">>, <<";">>, <<"m">>}

NoResult == [result_code |-> "none", summary |-> <<>>]

----------------------------------------------------------------------------
(* Buffers, inputs of the action and the command *)

\* the two bytes of a character encoded in UTF-8, and what they decode to
Utf8Lead == "0xC3"

Utf8Cont == "0xA9"

Utf8Char == "U+00E9"

\* the character an incomplete UTF-8 sequence is decoded to
Replacement == "U+FFFD"

\* data.toString(): a buffer is decoded on its own; its bytes below 0x80 are
\* its characters, a lead byte with its continuation byte is one character,
\* a lead or continuation byte on its own is replaced
BufferToString(buf) ==
    LET kept == SelectSeq([i \in 1..Len(buf) |-> i],
                          LAMBDA i : ~(buf[i] = Utf8Cont /\ i > 1 /\ buf[i - 1] = Utf8Lead))
        decode(i) == IF buf[i] = Utf8Lead
                     THEN IF i < Len(buf) /\ buf[i + 1] = Utf8Cont THEN Utf8Char ELSE Replacement
                     ELSE IF buf[i] = Utf8Cont THEN Replacement ELSE buf[i]
    IN  [k \in 1..Len(kept) |-> decode(kept[k])]

\* the lines `cat` writes for the stub file
StubChunks == {PlanLineChunk, NoChangesPhrase}

PlanHeadChunk == SubSeq(PlanLineChunk, 1, Len(PlanLineChunk) - 1)

PlanTailChunk == <<","," ","0"," ","t","o"," ","c","h","a","n","g","e",".">>

NoChangesHead == SubSeq(NoChangesPhrase, 1, Len(PlanPrefix))

NoChangesTail == SubSeq(NoChangesPhrase, Len(PlanPrefix) + 1, Len(NoChangesPhrase))

Utf8HeadChunk == <<"a", Utf8Lead>>

Utf8TailChunk == <<Utf8Cont, LF>>

\* buffers that end in the middle of a line, of a phrase or of a character
SplitChunks ==
    {PlanHeadChunk, PlanTailChunk, NoChangesHead, NoChangesTail, Utf8HeadChunk, Utf8TailChunk}

\* this.inputs.stack
Stack == "test-stack"

\* core.getInput("working_directory") || "./"
WorkingDirectory == "./"

\* core.getInput("output_filename")
OutputFilename == "output.json"

\* the file runDiff writes the raw output to, in the directory for temporary files
TmpFileName == "cdktf-diff.txt"

\* core.getInput("stub_output_file") when it is given
StubFile == "stub.txt"

\* stub_output_file is not given, skip_synth is false
DefaultInputs == [stubOutputFile |-> "", skipSynth |-> FALSE]

InputSets == {[stubOutputFile |-> s, skipSynth |-> b] : s \in {"", StubFile}, b \in BOOLEAN}

\* mutant of DiffCommand: the flag is put after the stack name
DiffCommandFlagLast(in, stack) ==
    (IF in.stubOutputFile # "" THEN <<"cat ", in.stubOutputFile>> ELSE <<"CI=1 npx cdktf diff">>)
    \o <<" ", stack>>
    \o (IF in.skipSynth THEN <<" --skip-synth">> ELSE <<>>)

\* diffCommand: the pieces of the command line, in their order
DiffCommand(in, stack) ==
    (IF in.stubOutputFile # "" THEN <<"cat ", in.stubOutputFile>> ELSE <<"CI=1 npx cdktf diff">>)
    \o (IF in.skipSynth THEN <<" --skip-synth">> ELSE <<>>)
    \o <<" ", stack>>

\* exec.exec("bash", ["-c", diffCommand], { listeners, cwd: workingDirectory })
ExecCall(in) ==
    [commandLine |-> "bash", args |-> <<"-c", DiffCommand(in, Stack)>>, cwd |-> WorkingDirectory]

NoCommand == [commandLine |-> "", args |-> <<>>, cwd |-> ""]

\* path.join(dir, name)
PathJoin(dir, name) == <<dir, name>>

NoFile == [path |-> <<>>, content |-> <<>>]

\* what a throw statement may carry: an Error with its message, or a string
ErrorValue(m) == [isError |-> TRUE, message |-> m, value |-> <<>>]

\* the property `message` of a string
Undefined == <<"undefined">>

StringValue(s) == [isError |-> FALSE, message |-> Undefined, value |-> s]

NoThrown == [isError |-> FALSE, message |-> <<>>, value |-> <<>>]

\* what new RunDiff() may throw
ConstructorThrows ==
    {ErrorValue(<<"Input required and not supplied: stack">>), StringValue(<<"String error">>)}

----------------------------------------------------------------------------
(* The jobs of the workflow run *)

\* per_page: 100, and the test of jobs.length against it
PageSize == 100

\* this.inputs.jobName
JobName == "target-job"

\* a job record without html_url
Null == "<null>"

Target1 == [id |-> 1, name |-> JobName, html_url |-> "url-1"]

Target2 == [id |-> 2, name |-> JobName, html_url |-> Null]

Target3 == [id |-> 3, name |-> JobName, html_url |-> "url-3"]

\* names that are not the job name: another name, another case, a prefix, an extension
OtherNames == <<"other-job", "Target-Job", "target", "target-job-2">>

\* a page of n jobs, none of them with the job name
FillerPage(n) ==
    [i \in 1..n |-> [id |-> 1000 + i,
                     name |-> OtherNames[((i - 1) % Len(OtherNames)) + 1],
                     html_url |-> "url-other"]]

PlaceAt(jobs, k, j) == [jobs EXCEPT ![k] = j]

PageLengths == {1, 2, PageSize - 1, PageSize}

NonMatchingPages == {FillerPage(n) : n \in {0} \cup PageLengths}

\* the job at the start, in the middle or at the end of a page
MatchingPages ==
    UNION {{PlaceAt(FillerPage(n), k, Target1) : k \in {1, (n + 1) \div 2, n}}
           : n \in PageLengths}

\* two jobs with the job name on one page
DuplicatePages ==
    {PlaceAt(PlaceAt(FillerPage(n), 1, pair[1]), n, pair[2]) :
        n \in {2, PageSize}, pair \in {<<Target1, Target2>>, <<Target2, Target1>>}}

LastPages == NonMatchingPages \cup MatchingPages \cup DuplicatePages

\* what may follow that page: nothing, a full page without the job, a page with the job
TailPages == {<<>>, <<FillerPage(PageSize)>>, <<<<Target3>>>>}

\* n full pages without the job
FullPages(n) == [i \in 1..n |-> FillerPage(PageSize)]

\* A source is the sequence of pages the API holds; with `forever` set the
\* API goes on delivering full pages without the job after them.
Sources ==
    {[pages |-> FullPages(n) \o <<p>> \o t, forever |-> f] :
        n \in 0..MaxFullPages, p \in LastPages, t \in TailPages, f \in BOOLEAN}

EmptySource == [pages |-> <<>>, forever |-> FALSE]

\* response.data.jobs for { per_page: 100, page: p }
PageAt(src, p) ==
    IF p <= Len(src.pages) THEN src.pages[p]
    ELSE IF src.forever THEN FillerPage(PageSize)
    ELSE <<>>

\* the errors a request to the API may fail with
FetchErrors == {<<"API rate limit exceeded">>, <<"Not Found">>}

NoJob == [job_id |-> -1, html_url |-> ""]

----------------------------------------------------------------------------
(* getJobId and getJobInformation *)

\* jobs.find(j => j.name === name): the index of the first such job, 0 for undefined
Find(jobs, name) ==
    LET hits == {i \in 1..Len(jobs) : jobs[i].name = name}
    IN  IF hits = {} THEN 0 ELSE Min(hits)

\* job.html_url || ""
HtmlUrl(j) == IF j.html_url = Null \/ j.html_url = "" THEN "" ELSE j.html_url

\* { job_id: job.id, html_url: job.html_url || "" }
JobInformation(j) == [job_id |-> j.id, html_url |-> HtmlUrl(j)]

\* `Could not find job with name ${this.inputs.jobName}`
NotFoundMessage(name) == <<"Could not find job with name ", name>>

\* mutant of ScanPage: the last job with the name is taken
ScanPageLastMatch(jobs, name) ==
    LET hits == {i \in 1..Len(jobs) : jobs[i].name = name}
        k == IF hits = {} THEN 0 ELSE CHOOSE i \in hits : \A h \in hits : h <= i
    IN  IF k # 0 THEN [kind |-> "return", job |-> JobInformation(jobs[k]), error |-> <<>>]
        ELSE IF Len(jobs) < PageSize
             THEN [kind |-> "throw", job |-> NoJob, error |-> NotFoundMessage(name)]
             ELSE [kind |-> "next", job |-> NoJob, error |-> <<>>]

\* mutant of ScanPage: the length of the page is tested before the job is looked for
ScanPageExhaustionFirst(jobs, name) ==
    LET k == Find(jobs, name)
    IN  IF Len(jobs) < PageSize
        THEN [kind |-> "throw", job |-> NoJob, error |-> NotFoundMessage(name)]
        ELSE IF k # 0
             THEN [kind |-> "return", job |-> JobInformation(jobs[k]), error |-> <<>>]
             ELSE [kind |-> "next", job |-> NoJob, error |-> <<>>]

\* mutant of ScanPage: only an empty page ends the search
ScanPageUntilEmpty(jobs, name) ==
    LET k == Find(jobs, name)
    IN  IF k # 0 THEN [kind |-> "return", job |-> JobInformation(jobs[k]), error |-> <<>>]
        ELSE IF Len(jobs) = 0
             THEN [kind |-> "throw", job |-> NoJob, error |-> NotFoundMessage(name)]
             ELSE [kind |-> "next", job |-> NoJob, error |-> <<>>]

\* one turn of the loop of getJobId on the jobs of a page
ScanPage(jobs, name) ==
    LET k == Find(jobs, name)
    IN  IF k # 0 THEN [kind |-> "return", job |-> JobInformation(jobs[k]), error |-> <<>>]
        ELSE IF Len(jobs) < PageSize
             THEN [kind |-> "throw", job |-> NoJob, error |-> NotFoundMessage(name)]
             ELSE [kind |-> "next", job |-> NoJob, error |-> <<>>]

\* mutant of NextPage: every other page is asked for
SkipPage(p) == p + 2

\* mutant of NextPage: the page number is not advanced
SamePage(p) == p

\* page++
NextPage(p) == p + 1

\* mutant of FetchFailure: a failed request is taken for the end of the jobs
FetchFailureAsNotFound(err, name) ==
    [kind |-> "throw", job |-> NoJob, error |-> NotFoundMessage(name)]

\* the await of listJobsForWorkflowRun rejects with err: getJobId has no catch
FetchFailure(err, name) == [kind |-> "throw", job |-> NoJob, error |-> err]

\* the array octokit.paginate resolves with: the jobs of all pages, in order
RECURSIVE Paginate(_)
Paginate(pages) ==
    IF pages = <<>> THEN <<>> ELSE Head(pages) \o Paginate(Tail(pages))

\* mutant of ScanAll: the last job with the name is taken
ScanAllLastMatch(jobs, name) ==
    LET hits == {i \in 1..Len(jobs) : jobs[i].name = name}
        k == IF hits = {} THEN 0 ELSE CHOOSE i \in hits : \A h \in hits : h <= i
    IN  IF k # 0 THEN [kind |-> "return", job |-> JobInformation(jobs[k]), error |-> <<>>]
        ELSE [kind |-> "throw", job |-> NoJob, error |-> NotFoundMessage(name)]

\* getJobInformation on the array octokit.paginate resolved with
ScanAll(jobs, name) ==
    LET k == Find(jobs, name)
    IN  IF k # 0 THEN [kind |-> "return", job |-> JobInformation(jobs[k]), error |-> <<>>]
        ELSE [kind |-> "throw", job |-> NoJob, error |-> NotFoundMessage(name)]

----------------------------------------------------------------------------
(* The state machine of runDiff *)

\* runDiff not called yet
DiffIdle ==
    /\ output = <<>>
    /\ chunks = 0
    /\ execOutcome = "pending"
    /\ exitCode = -1
    /\ tmpFile = <<>>
    /\ cleanOutput = <<>>
    /\ result = NoResult
    /\ command = NoCommand
    /\ delivered = <<>>

\* the resolver not called yet
JobIdle ==
    /\ page = 0
    /\ requested = <<>>
    /\ paginateCalls = 0
    /\ apiError = <<>>
    /\ jobPc = "idle"
    /\ jobResult = NoJob
    /\ jobError = <<>>

\* run and the entry point not called yet
RunIdle ==
    /\ runPc = "idle"
    /\ outputs = <<>>
    /\ outputFile = NoFile
    /\ failed = <<>>
    /\ runError = <<>>
    /\ wrapPc = "idle"
    /\ thrown = NoThrown
    /\ events = <<>>

\* runDiff called on its own
Init ==
    /\ variant \in {"runDiff", "parseOutput"}
    /\ pc = "start"
    /\ inputs = DefaultInputs
    /\ DiffIdle
    /\ source = EmptySource
    /\ JobIdle
    /\ RunIdle

\* runDiff up to the call of exec.exec
RunDiffCall ==
    /\ pc = "start"
    /\ pc' = "exec"
    /\ output' = <<>>
    /\ command' = ExecCall(inputs)
    /\ events' = events \o << <<"runDiff", "">>, <<"exec", "bash">> >>
    /\ UNCHANGED <<chunks, execOutcome, exitCode, tmpFile, cleanOutput, result, inputs, delivered>>

StartRunDiff == RunDiffCall /\ UNCHANGED <<variant, jobVars, runVars>>

\* mutant of ListenerBody: the buffer is put in front of what was captured
ListenerPrepends(c, bound) ==
    /\ pc = "exec"
    /\ chunks < bound
    /\ output' = BufferToString(c) \o output
    /\ chunks' = chunks + 1
    /\ UNCHANGED <<variant, pc, execOutcome, exitCode, tmpFile, cleanOutput, result>>
    /\ UNCHANGED <<inputs, command, events, jobVars, runVars>>

\* output += data.toString()
ListenerBody(c, bound) ==
    /\ pc = "exec"
    /\ chunks < bound
    /\ output' = output \o BufferToString(c)
    /\ chunks' = chunks + 1
    /\ UNCHANGED <<variant, pc, execOutcome, exitCode, tmpFile, cleanOutput, result>>
    /\ UNCHANGED <<inputs, command, events, jobVars, runVars>>

\* a listener appends a buffer to `output`
Listener(c, bound) == ListenerBody(c, bound) /\ UNCHANGED delivered

\* the same, the buffer and its stream kept on record
Delivery(stream, c, bound) ==
    /\ ListenerBody(c, bound)
    /\ delivered' = Append(delivered, <<stream, c>>)

Stdout == \E c \in PhraseChunks : Listener(c, MaxChunks)

Stderr == \E c \in PhraseChunks : Listener(c, MaxChunks)

StdoutChar == \E c \in CharChunks : Listener(c, MaxChars)

StderrChar == \E c \in CharChunks : Listener(c, MaxChars)

StdoutStub == \E c \in StubChunks : Listener(c, MaxChunks)

StderrStub == \E c \in StubChunks : Listener(c, MaxChunks)

StdoutSplit == \E c \in SplitChunks : Delivery("stdout", c, MaxChunks)

StderrSplit == \E c \in SplitChunks : Delivery("stderr", c, MaxChunks)

\* exec.exec resolves with the exit code; the rest of the try block runs
ExecResolves ==
    \E e \in 0..MaxExitCode :
        /\ pc = "exec"
        /\ e = 0 \/ IgnoreReturnCode(variant)
        /\ execOutcome' = "resolved"
        /\ exitCode' = e
        /\ tmpFile' = output
        /\ cleanOutput' = StripAnsiCodes(output)
        /\ result' = IF variant = "parseOutput"
                     THEN TryCatch(ParseOutput(output, e))
                     ELSE TryCatch(ClassifyClean(StripAnsiCodes(output)))
        /\ pc' = "done"
        /\ events' = Append(events, <<"writeFileSync", TmpFileName>>)
        /\ UNCHANGED <<variant, output, chunks>>
        /\ UNCHANGED <<inputs, command, delivered, jobVars, runVars>>

\* exec.exec rejects: the process exited non-zero and ignoreReturnCode is
\* not set, or the process could not be run; the catch block runs
ExecRejects ==
    \E e \in (1..MaxExitCode) \cup {-1} :
        /\ pc = "exec"
        /\ e # -1 => ~IgnoreReturnCode(variant)
        /\ execOutcome' = "rejected"
        /\ exitCode' = e
        /\ result' = Catch(IF e = -1 THEN SpawnMessage ELSE ExitCodeMessage(e))
        /\ pc' = "done"
        /\ UNCHANGED <<variant, output, chunks, tmpFile, cleanOutput>>
        /\ UNCHANGED <<inputs, command, delivered, events, jobVars, runVars>>

Next == StartRunDiff \/ Stdout \/ Stderr \/ ExecResolves \/ ExecRejects

Spec == Init /\ [][Next]_vars

\* the same program fed character by character
NextChars == StartRunDiff \/ StdoutChar \/ StderrChar \/ ExecResolves \/ ExecRejects

SpecChars == Init /\ [][NextChars]_vars

\* runDiff called with any of the inputs, the process writing the stub's lines
InitCommand ==
    /\ variant \in {"runDiff", "parseOutput"}
    /\ pc = "start"
    /\ inputs \in InputSets
    /\ DiffIdle
    /\ source = EmptySource
    /\ JobIdle
    /\ RunIdle

NextCommand == StartRunDiff \/ StdoutStub \/ StderrStub \/ ExecResolves \/ ExecRejects

SpecCommand == InitCommand /\ [][NextCommand]_vars

\* runDiff with the buffers of the two streams kept on record
NextStreams == StartRunDiff \/ StdoutSplit \/ StderrSplit \/ ExecResolves \/ ExecRejects

SpecStreams == Init /\ [][NextStreams]_vars

TypeOK ==
    /\ pc \in {"start", "exec", "done"}
    /\ result.result_code \in {"none", "0", "1", "2"}

----------------------------------------------------------------------------
(* The state machine of getJobId and getJobInformation *)

\* the resolver called on its own, against any of the sources
InitJob ==
    /\ variant \in {"runDiff", "parseOutput"}
    /\ pc = "start"
    /\ inputs = DefaultInputs
    /\ DiffIdle
    /\ source \in Sources
    /\ JobIdle
    /\ RunIdle

\* let page = 1, and the first request of the loop; log holds the calls so far
GetJobIdCall(log) ==
    /\ variant = "runDiff"
    /\ jobPc = "idle"
    /\ page' = 1
    /\ requested' = Append(requested, 1)
    /\ jobPc' = "awaiting"
    /\ events' = log \o << <<"getJobId", "">>, <<"listJobsForWorkflowRun", ToString(1)>> >>
    /\ UNCHANGED <<source, paginateCalls, apiError, jobResult, jobError>>

\* the one call of octokit.paginate
GetJobInformationCall(log) ==
    /\ variant = "parseOutput"
    /\ jobPc = "idle"
    /\ paginateCalls' = paginateCalls + 1
    /\ jobPc' = "awaiting"
    /\ events' = log \o << <<"getJobInformation", "">>, <<"paginate", "">> >>
    /\ UNCHANGED <<source, page, requested, apiError, jobResult, jobError>>

GetJobIdStart == GetJobIdCall(events) /\ UNCHANGED <<variant, diffVars, runVars>>

GetJobInformationStart == GetJobInformationCall(events) /\ UNCHANGED <<variant, diffVars, runVars>>

\* the resolver returns step.job or throws step.error
Settle(step) ==
    /\ jobPc' = IF step.kind = "return" THEN "returned" ELSE "threw"
    /\ jobResult' = step.job
    /\ jobError' = step.error

\* the request for `page` resolves: find, the test of the length, page++ and
\* the request of the next turn
FetchResolves ==
    /\ variant = "runDiff"
    /\ jobPc = "awaiting"
    /\ LET step == ScanPage(PageAt(source, page), JobName)
       IN  IF step.kind = "next"
           THEN /\ page <= MaxFullPages + 2
                /\ page' = NextPage(page)
                /\ requested' = Append(requested, NextPage(page))
                /\ events' = Append(events, <<"listJobsForWorkflowRun", ToString(NextPage(page))>>)
                /\ UNCHANGED <<jobPc, jobResult, jobError>>
           ELSE /\ Settle(step)
                /\ UNCHANGED <<page, requested, events>>
    /\ UNCHANGED <<variant, source, paginateCalls, apiError, diffVars, runVars>>

\* the request for `page` rejects
FetchRejects ==
    \E err \in FetchErrors :
        /\ variant = "runDiff"
        /\ jobPc = "awaiting"
        /\ apiError' = err
        /\ Settle(FetchFailure(err, JobName))
        /\ UNCHANGED <<variant, source, page, requested, paginateCalls, events, diffVars, runVars>>

\* octokit.paginate resolves with the jobs of all pages: only if they end
PaginateResolves ==
    /\ variant = "parseOutput"
    /\ jobPc = "awaiting"
    /\ ~source.forever
    /\ Settle(ScanAll(Paginate(source.pages), JobName))
    /\ UNCHANGED <<variant, source, page, requested, paginateCalls, apiError, events, diffVars, runVars>>

\* octokit.paginate rejects: one of its requests failed
PaginateRejects ==
    \E err \in FetchErrors :
        /\ variant = "parseOutput"
        /\ jobPc = "awaiting"
        /\ apiError' = err
        /\ Settle(FetchFailure(err, JobName))
        /\ UNCHANGED <<variant, source, page, requested, paginateCalls, events, diffVars, runVars>>

NextJob ==
    \/ GetJobIdStart
    \/ GetJobInformationStart
    \/ FetchResolves
    \/ FetchRejects
    \/ PaginateResolves
    \/ PaginateRejects

SpecJob == InitJob /\ [][NextJob]_vars

----------------------------------------------------------------------------
(* The state machine of run *)

\* the jobs of the runs of run: the job alone, the job without URL, another job alone
RunSources ==
    {[pages |-> <<p>>, forever |-> FALSE] : p \in {<<Target1>>, <<Target2>>, FillerPage(1)}}

\* mutant of Outputs: the identifier is published where the URL belongs
OutputsUrlFromId(job, r) ==
    << <<"html_url", ToString(job.job_id)>>,
       <<"job_id", ToString(job.job_id)>>,
       <<"result_code", r.result_code>>,
       <<"stack", Stack>>,
       <<"summary", r.summary>> >>

\* the entries of `outputs`, in the order of the object literal
Outputs(job, r) ==
    << <<"html_url", job.html_url>>,
       <<"job_id", ToString(job.job_id)>>,
       <<"result_code", r.result_code>>,
       <<"stack", Stack>>,
       <<"summary", r.summary>> >>

\* JSON.stringify(outputs): the entries in their order, between braces
JsonStringify(entries) == <<"{">> \o entries \o <<"}">>

\* mutant of SetFailed: every result other than "0" fails the job
SetFailedUnlessNoChanges(r) == IF r.result_code # "0" THEN <<r.summary>> ELSE <<>>

\* if (result_code === "1") core.setFailed(summary): the messages setFailed is called with
SetFailed(r) == IF r.result_code = "1" THEN <<r.summary>> ELSE <<>>

\* mutant of PublishCalls: the job is failed before anything is published
PublishCallsFailFirst(job, r) ==
    [i \in 1..Len(SetFailed(r)) |-> <<"setFailed", "">>]
    \o [i \in 1..Len(Outputs(job, r)) |-> <<"setOutput", Outputs(job, r)[i][1]>>]
    \o << <<"writeFileSync", OutputFilename>> >>

\* the calls run makes once runDiff has returned, in their order: setOutput
\* for every entry, writeFileSync, and setFailed on "1"
PublishCalls(job, r) ==
    [i \in 1..Len(Outputs(job, r)) |-> <<"setOutput", Outputs(job, r)[i][1]>>]
    \o << <<"writeFileSync", OutputFilename>> >>
    \o [i \in 1..Len(SetFailed(r)) |-> <<"setFailed", "">>]

InitRun ==
    /\ variant \in {"runDiff", "parseOutput"}
    /\ pc = "start"
    /\ inputs = DefaultInputs
    /\ DiffIdle
    /\ source \in RunSources
    /\ JobIdle
    /\ RunIdle

\* run calls getJobId (getJobInformation) and awaits it
RunCall(log) ==
    /\ runPc = "idle"
    /\ runPc' = "getJobId"
    /\ GetJobIdCall(Append(log, <<"run", "">>)) \/ GetJobInformationCall(Append(log, <<"run", "">>))
    /\ UNCHANGED <<variant, diffVars, outputs, outputFile, failed, runError, thrown>>

RunStart == RunCall(events) /\ UNCHANGED wrapPc

\* mutant of RunRejects: run goes on to runDiff although the resolver threw
RunContinuesAfterThrow ==
    /\ runPc = "getJobId"
    /\ jobPc = "threw"
    /\ runPc' = "runDiff"
    /\ RunDiffCall
    /\ UNCHANGED <<variant, jobVars, outputs, outputFile, failed, runError, wrapPc, thrown>>

\* the resolver threw: run has no catch and rejects with that error
RunRejects ==
    /\ runPc = "getJobId"
    /\ jobPc = "threw"
    /\ runPc' = "rejected"
    /\ runError' = jobError
    /\ UNCHANGED <<variant, diffVars, jobVars, outputs, outputFile, failed, wrapPc, thrown, events>>

\* mutant of RunCallsRunDiff: runDiff is called without awaiting the resolver
RunCallsRunDiffEarly ==
    /\ runPc = "getJobId"
    /\ jobPc \in {"awaiting", "returned"}
    /\ runPc' = "runDiff"
    /\ RunDiffCall
    /\ UNCHANGED <<variant, jobVars, outputs, outputFile, failed, runError, wrapPc, thrown>>

\* the resolver returned: run calls runDiff and awaits it
RunCallsRunDiff ==
    /\ runPc = "getJobId"
    /\ jobPc = "returned"
    /\ runPc' = "runDiff"
    /\ RunDiffCall
    /\ UNCHANGED <<variant, jobVars, outputs, outputFile, failed, runError, wrapPc, thrown>>

\* runDiff returned: the outputs are set and written, and the job is failed on "1"
RunPublish ==
    /\ runPc = "runDiff"
    /\ pc = "done"
    /\ outputs' = Outputs(jobResult, result)
    /\ outputFile' = [path |-> PathJoin(WorkingDirectory, OutputFilename),
                      content |-> JsonStringify(Outputs(jobResult, result))]
    /\ failed' = failed \o SetFailed(result)
    /\ events' = events \o PublishCalls(jobResult, result)
    /\ runPc' = "done"
    /\ UNCHANGED <<variant, diffVars, jobVars, runError, wrapPc, thrown>>

NextRun ==
    \/ RunStart
    \/ FetchResolves
    \/ FetchRejects
    \/ PaginateResolves
    \/ PaginateRejects
    \/ RunRejects
    \/ RunCallsRunDiff
    \/ Stdout
    \/ Stderr
    \/ ExecResolves
    \/ ExecRejects
    \/ RunPublish

SpecRun == InitRun /\ [][NextRun]_vars

----------------------------------------------------------------------------
(* The state machine of the entry point run() of index.ts *)

\* mutant of SetFailedArgument: the message is read from whatever was thrown
SetFailedMessageOnly(v) == IF v.isError THEN v.message ELSE Undefined

\* error instanceof Error ? error.message : error
SetFailedArgument(v) == IF v.isError THEN v.message ELSE v.value

\* new RunDiff() succeeded; diffPlan.run() is called and awaited
IndexStart ==
    /\ wrapPc = "idle"
    /\ wrapPc' = "run"
    /\ RunCall(Append(events, <<"new RunDiff", "">>))

\* new RunDiff() throws: the catch block calls setFailed
IndexConstructorThrows ==
    \E v \in ConstructorThrows :
        /\ wrapPc = "idle"
        /\ wrapPc' = "done"
        /\ thrown' = v
        /\ failed' = Append(failed, SetFailedArgument(v))
        /\ events' = events \o << <<"new RunDiff", "">>, <<"setFailed", "">> >>
        /\ UNCHANGED <<variant, diffVars, jobVars, runPc, outputs, outputFile, runError>>

\* diffPlan.run() resolved: run() returns
IndexReturns ==
    /\ wrapPc = "run"
    /\ runPc = "done"
    /\ wrapPc' = "done"
    /\ UNCHANGED <<variant, diffVars, jobVars, runPc, outputs, outputFile, failed, runError, thrown, events>>

\* diffPlan.run() rejected: the catch block calls setFailed
IndexCatches ==
    /\ wrapPc = "run"
    /\ runPc = "rejected"
    /\ wrapPc' = "done"
    /\ thrown' = ErrorValue(runError)
    /\ failed' = Append(failed, SetFailedArgument(ErrorValue(runError)))
    /\ events' = Append(events, <<"setFailed", "">>)
    /\ UNCHANGED <<variant, diffVars, jobVars, runPc, outputs, outputFile, runError>>

NextIndex ==
    \/ IndexStart
    \/ IndexConstructorThrows
    \/ FetchResolves
    \/ FetchRejects
    \/ PaginateResolves
    \/ PaginateRejects
    \/ RunRejects
    \/ RunCallsRunDiff
    \/ Stdout
    \/ Stderr
    \/ ExecResolves
    \/ ExecRejects
    \/ RunPublish
    \/ IndexReturns
    \/ IndexCatches

SpecIndex == InitRun /\ [][NextIndex]_vars

----------------------------------------------------------------------------
(* Vocabulary of the claims *)

Done == pc = "done"

Resolved == pc = "done" /\ execOutcome = "resolved"

\* the escape-stripped form of the captured text
Clean == StripAnsiCodes(output)

HasErrorPhrase == Includes(Clean, PlanningFailedPhrase)

HasNoChanges == Includes(Clean, NoChangesPhrase)

HasPlan == Includes(Clean, PlanPrefix)

\* the first line of t that begins with the prefix (there is one)
FirstLineWith(t, prefix) ==
    LET i == Min(LineStarts(t, prefix)) IN SubSeq(t, i, LineEnd(t, i) - 1)

\* s is the text from the first occurrence of the prefix in t, wherever in
\* its line, up to the end of that line
FromFirstOccurrence(t, prefix, s) ==
    \E i \in 1..Len(t) :
        /\ OccursAt(t, prefix, i)
        /\ \A j \in 1..(i - 1) : ~OccursAt(t, prefix, j)
        /\ OccursAt(t, s, i)
        /\ Len(s) >= Len(prefix)
        /\ \A k \in 1..Len(s) : s[k] \notin LineTerminators
        /\ i + Len(s) > Len(t) \/ t[i + Len(s)] \in LineTerminators

\* t with the sequence c inserted after its first pos characters
Insert(t, pos, c) == SubSeq(t, 1, pos) \o c \o SubSeq(t, pos + 1, Len(t))

\* sequences the stripping expression matches, and two it does not
CsiSamples ==
    {<<ESC,"[","m">>, SgrChunk, <<ESC,"[","1",";","2","K">>,
     <<ESC,"[","1",";","2",";","3","m">>, <<ESC,"[","3","8",";","5",";","1","9","6","m">>}

----------------------------------------------------------------------------
(* Claims *)

\* C1: in src/src/runDiff.ts the checks are applied in the order error
\* phrase, no-changes phrase, 'Plan:' line, and the first that matches
\* decides: a text whose stripped form contains the error phrase gives result
\* code "1" whatever else it contains; without the error phrase the
\* no-changes phrase gives "0" also when 'Plan:' occurs; 'Plan:' gives "2"
\* only when neither phrase occurs.
C1_ErrorPhraseFirst ==
    (Done /\ variant = "runDiff") =>
        /\ HasErrorPhrase => result.result_code = "1"
        /\ (Resolved /\ ~HasErrorPhrase /\ HasNoChanges) => result.result_code = "0"
        /\ (Resolved /\ ~HasErrorPhrase /\ ~HasNoChanges /\ HasPlan) => result.result_code = "2"

\* an error phrase preceded by the no-changes phrase and followed by a Plan line
C1_Witness ==
    /\ Resolved /\ variant = "runDiff"
    /\ HasErrorPhrase /\ HasNoChanges /\ HasPlan
    /\ IndexOf(Clean, NoChangesPhrase) < IndexOf(Clean, PlanningFailedPhrase)
    /\ IndexOf(Clean, PlanningFailedPhrase) < IndexOf(Clean, PlanPrefix)
    /\ result.result_code = "1"

C3_Original ==
    (Resolved /\ variant = "runDiff"
        /\ Includes(cleanOutput, ShortFailChunk)
        /\ LineStarts(cleanOutput, ErrorPrefix) # {})
    => result = [result_code |-> "1", summary |-> FirstLineWith(cleanOutput, ErrorPrefix)]

\* C3 (amended): a cleaned text containing "Planning failed. Terraform
\* encountered an error" and an occurrence of "Error: " is classified "1" with
\* the summary running from the first occurrence of "Error: ", wherever in its
\* line, up to the end of that line.
C3_ErrorSummary ==
    (Resolved /\ variant = "runDiff"
        /\ Includes(cleanOutput, PlanningFailedPhrase)
        /\ Includes(cleanOutput, ErrorPrefix))
    => /\ result.result_code = "1"
       /\ FromFirstOccurrence(cleanOutput, ErrorPrefix, result.summary)

\* the first "Error: " is in the middle of a line and a later line begins with it
C3_Witness ==
    /\ Resolved /\ variant = "runDiff"
    /\ Includes(cleanOutput, PlanningFailedPhrase)
    /\ LineStarts(cleanOutput, ErrorPrefix) # {}
    /\ IndexOf(cleanOutput, ErrorPrefix) \notin LineStarts(cleanOutput, ErrorPrefix)
    /\ result.summary # FirstLineWith(cleanOutput, ErrorPrefix)
    /\ result.result_code = "1"

\* C4 (as claimed): a cleaned text containing the no-changes phrase with no
\* error phrase before it, the exit code being zero, is classified
\* ("0", the no-changes phrase).
C4_Original ==
    (Resolved /\ exitCode = 0 /\ Includes(cleanOutput, NoChangesPhrase)
        /\ \A i \in 1..(IndexOf(cleanOutput, NoChangesPhrase) - 1) :
              ~OccursAt(cleanOutput, PlanningFailedPhrase, i))
    => result = [result_code |-> "0", summary |-> NoChangesPhrase]

\* C4 (amended): a cleaned text containing the no-changes phrase and no error
\* phrase anywhere, the exit code being zero, is classified ("0", the
\* no-changes phrase), also when the phrase was wrapped in colour escapes and
\* when 'Plan:' occurs in the text.
C4_NoChanges ==
    (Resolved /\ exitCode = 0 /\ Includes(cleanOutput, NoChangesPhrase)
        /\ ~Includes(cleanOutput, PlanningFailedPhrase))
    => result = [result_code |-> "0", summary |-> NoChangesPhrase]

\* the phrase behind a colour escape, with a Plan line in the same text
C4_Witness ==
    /\ Resolved /\ variant = "runDiff" /\ exitCode = 0
    /\ Includes(output, SgrChunk \o NoChangesPhrase)
    /\ Includes(cleanOutput, PlanPrefix)
    /\ result = [result_code |-> "0", summary |-> NoChangesPhrase]

\* C5 (as claimed): a cleaned text containing a line that begins with "Plan:"
\* and no error phrase is classified ("2", that line verbatim).
C5_Original ==
    (Resolved /\ variant = "runDiff" /\ LineStarts(cleanOutput, PlanPrefix) # {}
        /\ ~Includes(cleanOutput, PlanningFailedPhrase))
    => result = [result_code |-> "2", summary |-> FirstLineWith(cleanOutput, PlanPrefix)]

\* C5 (amended): a cleaned text containing a line that begins with "Plan:",
\* with no occurrence of "Plan:" before that line, no error phrase and no
\* no-changes phrase, the exit code being zero, is classified ("2", that line
\* verbatim, trailing punctuation included).
C5_PlanLine ==
    (Resolved /\ exitCode = 0
        /\ LineStarts(cleanOutput, PlanPrefix) # {}
        /\ IndexOf(cleanOutput, PlanPrefix) \in LineStarts(cleanOutput, PlanPrefix)
        /\ ~Includes(cleanOutput, PlanningFailedPhrase)
        /\ ~Includes(cleanOutput, NoChangesPhrase))
    => result = [result_code |-> "2", summary |-> FirstLineWith(cleanOutput, PlanPrefix)]

\* a Plan line on the second line of the text, returned whole
C5_Witness ==
    /\ Resolved /\ exitCode = 0
    /\ IndexOf(cleanOutput, PlanPrefix) > 1
    /\ cleanOutput[IndexOf(cleanOutput, PlanPrefix) - 1] = LF
    /\ result = [result_code |-> "2", summary |-> PlanLineChunk]

\* C6: a captured text with no error phrase, no no-changes phrase and no
\* 'Plan:', the command having completed normally, is classified
\* ("1", "Could not determine if diff ran successfully").
C6_CouldNotDetermine ==
    (Resolved /\ exitCode = 0
        /\ ~Includes(cleanOutput, PlanningFailedPhrase)
        /\ ~Includes(cleanOutput, NoChangesPhrase)
        /\ ~Includes(cleanOutput, PlanPrefix))
    => result = [result_code |-> "1", summary |-> CouldNotDetermine]

\* a non-empty text that holds an "Error: " line but none of the phrases
C6_Witness ==
    /\ Resolved /\ exitCode = 0
    /\ Includes(cleanOutput, ErrorPrefix) /\ Includes(cleanOutput, ShortFailChunk)
    /\ result = [result_code |-> "1", summary |-> CouldNotDetermine]

\* C7: when the diff process exits with a non-zero code the result code is
\* "1", whatever the captured text contains.
C7_NonZeroExitIsError ==
    (Done /\ exitCode > 0) => result.result_code = "1"

\* a non-zero exit after the no-changes phrase was written
C7_Witness ==
    /\ Done /\ exitCode > 0 /\ variant = "parseOutput"
    /\ HasNoChanges /\ ~HasErrorPhrase
    /\ result.result_code = "1"

\* C8 (as claimed): when the command fails (non-zero exit, or exec rejects)
\* after writing the error phrase and an "Error: <msg>" line, the result is
\* ("1", "Error: <msg>"), the error line of the captured output.
C8_FailedRunKeepsErrorLine ==
    (Done /\ variant = "runDiff" /\ (exitCode > 0 \/ execOutcome = "rejected")
        /\ HasErrorPhrase /\ LineStarts(Clean, ErrorPrefix) # {})
    => result = [result_code |-> "1", summary |-> MatchToEndOfLine(Clean, ErrorPrefix)]

\* C9 (as claimed): stripping is idempotent, the stripped text holds no
\* sequence the stripper would remove.
C9_StripIdempotent ==
    Resolved => StripAnsiCodes(cleanOutput) = cleanOutput

\* C10 (as claimed): inserting a CSI sequence ESC '[' <params> <m, G or K>
\* at any position of the captured text changes neither the result code nor
\* the summary.
C10_EscapeAgnostic ==
    (Resolved /\ variant = "runDiff") =>
        \A pos \in 0..Len(output) : \A c \in CsiSamples :
            TryCatch(ClassifyClean(StripAnsiCodes(Insert(output, pos, c)))) = result

\* c is t from index i on, with matched escape sequences removed and every
\* other character kept in its place (c read from index j on)
RECURSIVE OnlyCsiRemoved(_, _, _, _)
OnlyCsiRemoved(t, i, c, j) ==
    IF i > Len(t) THEN j > Len(c)
    ELSE \/ CsiLen(t, i) > 0 /\ OnlyCsiRemoved(t, i + CsiLen(t, i), c, j)
         \/ j <= Len(c) /\ t[i] = c[j] /\ OnlyCsiRemoved(t, i + 1, c, j + 1)

\* the characters of a text
Chars(t) == {t[i] : i \in 1..Len(t)}

\* C11: the stripped text is the captured text with only matched escape
\* sequences removed, every other character kept in its original order; a
\* text without an ESC character is returned unchanged, literal brackets
\* included.
C11_OnlyEscapesRemoved ==
    Resolved =>
        /\ OnlyCsiRemoved(output, 1, cleanOutput, 1)
        /\ ESC \notin Chars(output) => cleanOutput = output

\* an escape sequence was removed and a literal '[' next to it was kept
C11_Witness ==
    /\ Resolved
    /\ Len(cleanOutput) < Len(output)
    /\ "[" \in Chars(cleanOutput)
    /\ ESC \notin Chars(cleanOutput)

\* the summaries the program itself words
FixedFallbacks ==
    {UnknownError, CouldNotDetermine} \cup {PlanFailedMessage(e) : e \in 1..MaxExitCode}

\* C12 (as claimed): every summary is non-empty, holds no line break, and is
\* a contiguous part of the stripped captured text or a fixed fallback string.
C12_SummaryInvariant ==
    Done =>
        /\ result.summary # <<>>
        /\ \A k \in 1..Len(result.summary) : result.summary[k] \notin LineTerminators
        /\ Includes(Clean, result.summary) \/ result.summary \in FixedFallbacks

----------------------------------------------------------------------------
(* Claims on the job resolver *)

\* getJobId returned or threw
JobSettled == jobPc \in {"returned", "threw"}

HasJob(jobs) == \E i \in 1..Len(jobs) : jobs[i].name = JobName

FullWithoutJob(jobs) == Len(jobs) = PageSize /\ ~HasJob(jobs)

\* the pages a run of getJobId can ask for within the bounds
Horizon == MaxFullPages + 3

\* the first page that holds the job or is short; 0 when every page is full without it
StopPage(src) ==
    LET stops == {p \in 1..Horizon : ~FullWithoutJob(PageAt(src, p))}
    IN  IF stops = {} THEN 0 ELSE Min(stops)

\* the page numbers 1, 2, ..., n
UpTo(n) == [i \in 1..n |-> i]

\* C13: getJobId returns the id and the URL of one record whose name is
\* exactly the job name, and no record delivered before it (on an earlier
\* page, or earlier on its page) has that name.
C13_FirstExactMatch ==
    (variant = "runDiff" /\ jobPc = "returned") =>
        \E p \in 1..Len(requested) : \E k \in 1..Len(PageAt(source, p)) :
            LET j == PageAt(source, p)[k]
            IN  /\ j.name = JobName
                /\ jobResult.job_id = j.id
                /\ jobResult.html_url = (IF j.html_url = Null THEN "" ELSE j.html_url)
                /\ \A q \in 1..p : \A i \in 1..Len(PageAt(source, q)) :
                       (q < p \/ i < k) => PageAt(source, q)[i].name # JobName

\* two records with the job name on the third page: the first one, without URL, is returned
C13_Witness ==
    /\ variant = "runDiff"
    /\ jobPc = "returned"
    /\ page = 3
    /\ Len(PageAt(source, 3)) = PageSize
    /\ PageAt(source, 3)[1] = Target2
    /\ PageAt(source, 3)[PageSize] = Target1
    /\ jobResult = [job_id |-> 2, html_url |-> ""]

C16_Termination ==
    /\ [](variant = "runDiff" => requested = UpTo(page))
    /\ (variant = "runDiff" /\ StopPage(source) # 0) => <>JobSettled
    /\ (variant = "runDiff" /\ StopPage(source) = 0) => [](JobSettled => apiError # <<>>)

\* against full pages without the job for ever, getJobId is still asking
C16_Witness ==
    /\ variant = "runDiff"
    /\ source.forever
    /\ StopPage(source) = 0
    /\ jobPc = "awaiting"
    /\ page = MaxFullPages + 3
    /\ requested = UpTo(MaxFullPages + 3)

\* every page before the last one is full, and the pages end
WellPaged(src) ==
    /\ ~src.forever
    /\ \A p \in 1..(Len(src.pages) - 1) : Len(src.pages[p]) = PageSize

\* what getJobInformation does against the source: "pending" if paginate never resolves
LinearScan(src) ==
    IF src.forever THEN [kind |-> "pending", job |-> NoJob, error |-> <<>>]
    ELSE ScanAll(Paginate(src.pages), JobName)

\* getJobId settled as getJobInformation does against the same source
SameAsLinearScan ==
    /\ jobPc = (IF LinearScan(source).kind = "return" THEN "returned" ELSE "threw")
    /\ LinearScan(source).kind # "pending"
    /\ jobResult = LinearScan(source).job
    /\ jobError = LinearScan(source).error

C18_FetchErrorPropagates ==
    /\ []((variant = "runDiff" /\ apiError # <<>>) =>
              /\ jobPc = "threw"
              /\ jobError = apiError
              /\ jobError # NotFoundMessage(JobName)
              /\ jobResult = NoJob)
    /\ [][(variant = "runDiff" /\ apiError # <<>>) => requested' = requested]_vars

\* the request for the second page failed
C18_Witness ==
    /\ variant = "runDiff"
    /\ apiError = <<"API rate limit exceeded">>
    /\ jobError = <<"API rate limit exceeded">>
    /\ requested = <<1, 2>>
    /\ jobPc = "threw"

SpecJobFair == SpecJob /\ WF_vars(NextJob)

----------------------------------------------------------------------------
(* Claims on failures of exec and on run *)

\* the message of the error exec.exec rejected with
RejectionMessage == IF exitCode = -1 THEN SpawnMessage ELSE ExitCodeMessage(exitCode)

C20_FailedExactlyOnError ==
    /\ runPc = "done" =>
           /\ result.result_code = "1" => failed = <<result.summary>>
           /\ result.result_code \in {"0", "2"} => failed = <<>>
    /\ runPc # "done" => failed = <<>>

\* a run that ended with the error line of the output as the message of setFailed
C20_Witness ==
    /\ runPc = "done"
    /\ jobResult.job_id = 1
    /\ execOutcome = "resolved"
    /\ result = [result_code |-> "1", summary |-> ErrorLineChunk]
    /\ failed = <<ErrorLineChunk>>
    /\ outputs[3] = <<"result_code", "1">>

----------------------------------------------------------------------------
(* Claims on the orchestration *)

\* the positions in `events` of the calls with that name
Calls(name) == {i \in 1..Len(events) : events[i][1] = name}

\* the positions in `events` of the writes of the result file
ResultFileWrites == {i \in 1..Len(events) : events[i] = <<"writeFileSync", OutputFilename>>}

OutputKeys == <<"html_url", "job_id", "result_code", "stack", "summary">>

\* the five outputs are set, and the record is in the file of the working directory
Published ==
    /\ [i \in 1..Len(outputs) |-> outputs[i][1]] = OutputKeys
    /\ LET set == SelectSeq(events, LAMBDA e : e[1] = "setOutput")
       IN  [k \in 1..Len(set) |-> set[k][2]] = OutputKeys
    /\ outputFile.path = <<WorkingDirectory, OutputFilename>>
    /\ outputFile.content # <<>>
    /\ Cardinality(ResultFileWrites) = 1

\* C21: once runDiff has returned, run cannot go on without setting the
\* five outputs and writing the record to <working_directory>/<output_filename>,
\* whatever the result code; a call of setFailed comes after all of them.
C21_AlwaysPublishes ==
    /\ [](runPc = "done" =>
              /\ result.result_code \in {"0", "1", "2"}
              /\ Published
              /\ \A f \in Calls("setFailed") :
                     \A p \in Calls("setOutput") \cup ResultFileWrites : p < f)
    /\ [][(runPc = "runDiff" /\ runPc' # "runDiff") => (runPc' = "done" /\ Published')]_vars

\* an error result, published and then failed
C21_Witness ==
    /\ runPc = "done"
    /\ result.result_code = "1"
    /\ Published
    /\ Calls("setFailed") = {Len(events)}
    /\ ResultFileWrites = {Len(events) - 1}

\* the decimal numeral of a job identifier of the sources
Decimal(n) == IF n = 1 THEN "1" ELSE IF n = 2 THEN "2" ELSE IF n = 3 THEN "3" ELSE "?"

\* C22: after run, the outputs are exactly html_url, job_id, result_code,
\* stack and summary: result_code and summary as runDiff returned them,
\* job_id the decimal numeral of the id of the job found, html_url its URL
\* ("" when it has none), stack the input; the file holds the same pairs.
C22_FaithfulRecord ==
    runPc = "done" =>
        /\ outputs = << <<"html_url", jobResult.html_url>>,
                        <<"job_id", Decimal(jobResult.job_id)>>,
                        <<"result_code", result.result_code>>,
                        <<"stack", Stack>>,
                        <<"summary", result.summary>> >>
        /\ result.result_code \in {"0", "1", "2"}
        /\ \E p \in 1..Len(source.pages) : \E k \in 1..Len(source.pages[p]) :
               LET j == source.pages[p][k]
               IN  /\ j.name = JobName
                   /\ outputs[2][2] = Decimal(j.id)
                   /\ outputs[1][2] = (IF j.html_url = Null THEN "" ELSE j.html_url)
        /\ outputFile.content = <<"{">> \o outputs \o <<"}">>

\* the job without URL and a plan with changes
C22_Witness ==
    /\ runPc = "done"
    /\ outputs = << <<"html_url", "">>,
                    <<"job_id", "2">>,
                    <<"result_code", "2">>,
                    <<"stack", "test-stack">>,
                    <<"summary", PlanLineChunk>> >>
    /\ outputFile.content[2] = <<"html_url", "">>

\* C23: run starts the job resolution once and calls exec only after it has
\* returned; exec is called at most once, also after a failed or
\* unclassifiable execution; a result exists only after exec has settled,
\* and outputs are published only after the result exists.
C23_OrderNoRetry ==
    /\ Cardinality(Calls("getJobId") \cup Calls("getJobInformation")) = (IF runPc = "idle" THEN 0 ELSE 1)
    /\ Cardinality(Calls("exec")) = (IF pc = "start" THEN 0 ELSE 1)
    /\ pc # "start" => jobPc = "returned"
    /\ \A r \in Calls("getJobId") \cup Calls("getJobInformation") : \A e \in Calls("exec") : r < e
    /\ result # NoResult => execOutcome # "pending"
    /\ (outputs # <<>> \/ outputFile # NoFile \/ Calls("setOutput") # {}) =>
           (pc = "done" /\ result # NoResult)
    /\ \A e \in Calls("exec") : \A p \in Calls("setOutput") : e < p

\* an execution that could not be classified, published without a second execution
C23_Witness ==
    /\ runPc = "done"
    /\ result.summary = CouldNotDetermine
    /\ Cardinality(Calls("exec")) = 1
    /\ Calls("setOutput") # {}

----------------------------------------------------------------------------
(* Claims on the entry point *)

\* what run itself passed to setFailed
FailedByRun == IF runPc = "done" THEN SetFailed(result) ELSE <<>>

\* C24: when the entry point has ended, RunDiff was constructed once and
\* run called at most once; if the constructor or run threw, setFailed was
\* called once, with the message of an Error or with the value itself
\* otherwise; if nothing was thrown, the only call of setFailed is the one
\* run made for a result code "1".
C24_EntryPointCatches ==
    wrapPc = "done" =>
        /\ Cardinality(Calls("new RunDiff")) = 1
        /\ Cardinality(Calls("run")) <= 1
        /\ runPc \in {"idle", "done", "rejected"}
        /\ (runPc = "idle" \/ runPc = "rejected") =>
               /\ thrown # NoThrown
               /\ Cardinality(Calls("setFailed")) = 1
               /\ failed = <<IF thrown.isError THEN thrown.message ELSE thrown.value>>
               /\ runPc = "rejected" => thrown = [isError |-> TRUE, message |-> runError, value |-> <<>>]
        /\ runPc = "done" =>
               /\ thrown = NoThrown
               /\ Cardinality(Calls("run")) = 1
               /\ failed = FailedByRun
               /\ Cardinality(Calls("setFailed")) = Len(FailedByRun)

\* the constructor threw a string
C24_Witness ==
    /\ wrapPc = "done"
    /\ runPc = "idle"
    /\ ~thrown.isError
    /\ failed = <<<<"String error">>>>
    /\ Calls("run") = {}

\* no job of the run has the job name
NoJobIn(src) == \A p \in 1..Len(src.pages) : ~HasJob(src.pages[p])

----------------------------------------------------------------------------
(* Claims on the command and on the capture *)

\* the command line as one text: its pieces in a row
CommandLine == IF command.args = <<>> THEN <<>> ELSE command.args[2]

RECURSIVE DeliveredText(_)
DeliveredText(n) ==
    IF n = 0 THEN <<>> ELSE DeliveredText(n - 1) \o BufferToString(delivered[n][2])

\* C27: whatever the interleaving of the stdout and stderr callbacks, the
\* captured text is the texts of the delivered buffers in their order of
\* delivery, and that text is what is written, cleaned and classified; a
\* Plan line whose head came on stdout and whose tail came next on stderr
\* is found as one line.
C27_CombinedCapture ==
    /\ pc # "start" => output = DeliveredText(Len(delivered))
    /\ Resolved =>
           /\ tmpFile = DeliveredText(Len(delivered))
           /\ cleanOutput = StripAnsiCodes(DeliveredText(Len(delivered)))
           /\ result = IF variant = "parseOutput"
                       THEN TryCatch(ParseOutput(DeliveredText(Len(delivered)), exitCode))
                       ELSE TryCatch(ClassifyClean(StripAnsiCodes(DeliveredText(Len(delivered)))))
    /\ (Resolved /\ exitCode = 0
          /\ delivered = << <<"stdout", PlanHeadChunk>>, <<"stderr", PlanTailChunk>> >>) =>
           result = [result_code |-> "2", summary |-> PlanHeadChunk \o PlanTailChunk]

\* 'Plan: 1 to add' on stdout, then ', 0 to change.' on stderr
C27_Witness ==
    /\ Resolved /\ exitCode = 0
    /\ delivered = << <<"stdout", PlanHeadChunk>>, <<"stderr", PlanTailChunk>> >>
    /\ result.result_code = "2"
    /\ result.summary = PlanHeadChunk \o PlanTailChunk

----------------------------------------------------------------------------
(* Claims on the fallbacks, the page scan and the two builds *)

\* C28: in src/src/runDiff.ts, a cleaned text with the planning-failed phrase
\* and no "Error: " anywhere gives ("1", "Unknown error occurred"), and no
\* text with the planning-failed phrase gives the could-not-determine summary.
C28_ErrorFallback ==
    (variant = "runDiff" /\ Done /\ HasErrorPhrase) =>
        /\ result.summary # CouldNotDetermine
        /\ (Resolved /\ ~Includes(Clean, ErrorPrefix)) =>
               result = [result_code |-> "1", summary |-> <<"Unknown error occurred">>]

\* the planning-failed phrase next to a Plan line and the no-changes phrase,
\* none of them with "Error: "
C28_Witness ==
    /\ variant = "runDiff" /\ Resolved
    /\ HasErrorPhrase /\ HasPlan /\ HasNoChanges
    /\ ~Includes(Clean, ErrorPrefix)
    /\ result = [result_code |-> "1", summary |-> UnknownError]

\* the page numbers of the listJobsForWorkflowRun calls, in the order of the calls
PagesAsked ==
    LET calls == SelectSeq(events, LAMBDA e : e[1] = "listJobsForWorkflowRun")
    IN  [i \in 1..Len(calls) |-> calls[i][2]]

C30_VariantsAgree ==
    (Resolved /\ exitCode = 0) =>
        TryCatch(ParseOutput(output, 0)) = TryCatch(ClassifyClean(StripAnsiCodes(output)))

====
